---- MODULE Spec2Model ----
(***************************************************************************)
(* State-machine model of the polyphonic sample player of                  *)
(* src/src/sampler.rs: a fixed pool of voices, the note allocator          *)
(* (note_on / note_off / stop_note behind send_event), set_param and the   *)
(* render pass.                                                            *)
(*                                                                         *)
(* Number representation.  The source computes in f32; the model keeps     *)
(* every quantity it needs as an exact integer:                            *)
(*   - a voice position and a pitch ratio are counted in 1/PosUnit frames  *)
(*     (pitches are whole octaves from ROOT_PITCH, so every ratio and      *)
(*     position is a multiple of 1/2 frame, exact in f32);                 *)
(*   - the Offset parameter is counted in frames;                          *)
(*   - envelope durations are counted in milliseconds (0.005 s = 5);       *)
(*   - sample amplitudes are counted in hundredths (SILENCE 0.01 = 1), an  *)
(*     interpolated frame in 1/PosUnit of that;                            *)
(*   - a buffer slot is kept as the value it held on entry plus the list   *)
(*     of the terms amp * env * new_frame added to it, each term with its  *)
(*     three factors apart (the envelope's curve and the dB conversion     *)
(*     are not evaluated).                                                 *)
(* The wav file's rate is taken equal to the engine's SAMPLE_RATE, so the  *)
(* rate factor of pitch_ratio is 1.                                        *)
(*                                                                         *)
(* Specifications.  Spec: the sampler on samples with leading silence.     *)
(* FairSpec: Spec with a host that keeps calling render.  MixSpec: short   *)
(* samples, notes an octave below ROOT_PITCH, the render buffer observed.  *)
(* WideSpec: Spec with one more voice in the pool.  LoadSpec: with_sample  *)
(* on wav files of a few samples.                                          *)
(***************************************************************************)
EXTENDS Integers, Sequences, FiniteSets, TLC

(***************************************************************************)
(* Bounds of the model.                                                    *)
(***************************************************************************)
\* Number of voice slots.  The source builds 8 (sampler.rs:75); every loop
\* over the pool is uniform in its length, and the model runs a smaller pool.
NumVoices == 2
\* Columns are 0..MaxColumn.
MaxColumn == 1
\* A render buffer has 0..MaxBuf slots.
MaxBuf == 1
\* send_event and set_param calls per run (render calls are not limited).
MaxCalls == 3
\* send_event and set_param calls per run under FairSpec.
LiveCalls == 2
\* Milliseconds of envelope time that pass per output sample.
SampleMs == 2
\* A decoded wav file has up to MaxWave samples (load_sound on its own).
MaxWave == 4
\* A render buffer has 0..MixBuf slots under MixSpec.
MixBuf == 2
\* send_event and set_param calls per run under MixSpec.
MixCalls == 2

(***************************************************************************)
(* Program constants.                                                      *)
(***************************************************************************)
ROOT_PITCH == 48
\* const SILENCE: f32 = 0.01, in hundredths
SILENCE == 1
\* voice.env.release = 0.005, in milliseconds
ShortRelease == 5
\* Param::new defaults (second argument), in dB / milliseconds / level
AmpDefault == 0 - 6
AttackDefault == 5
DecayDefault == 250
SustainDefault == 0
ReleaseDefault == 0
\* positions and pitch ratios are in 1/PosUnit frames
PosUnit == 2

Free == "Free"
Busy == "Busy"

Columns == 0..MaxColumn
Pitches == {ROOT_PITCH, ROOT_PITCH + 12}
BufLens == 0..MaxBuf
SamplerParam == {"Amp", "Offset", "Attack", "Decay", "Sustain", "Release"}
\* ParamKey: the sampler's keys and a key of another instrument
ParamKeys == SamplerParam \cup {"Other"}
\* values a host passes to set_param
ParamValues == {0, 5}
\* value the slots of a render buffer hold when the host passes it (what the
\* instruments before this one have mixed into it)
BufFills == {0, 3}

Frame(l, r) == [left |-> l, right |-> r]
\* the decoded wav files the sampler is built from
SampleFiles ==
    { << Frame(0, 0), Frame(50, 50), Frame(50, 50), Frame(50, 50), Frame(50, 50) >>,
      << Frame(0, 0), Frame(0, 0), Frame(50, 50) >> }

VARIABLES
    voices,     \* Sampler.voices: sequence of Voice
    samples,    \* Sampler.samples: the frame store
    params,     \* Sampler.params: SamplerParam -> val
    loadOffset, \* the offset load_sound returned
    panicked,   \* a call has panicked (index out of bounds in render)
    buffer,     \* the buffer of the last render call, as the call left it
    lastOp,     \* the last call made and what it matched
    steal,      \* <<old, new>> of the last steal while only render has run since
    callsLeft   \* send_event and set_param calls the run may still make

vars == << voices, samples, params, loadOffset, panicked, buffer, lastOp, steal, callsLeft >>

(***************************************************************************)
(* Envelope (crate::env): not part of the given sources; modelled from its *)
(* contract: settable stage durations, start_attack, start_release, a      *)
(* per-sample value() query that advances it, and a state that is Init at  *)
(* rest.                                                                   *)
(***************************************************************************)
EnvelopeNew ==
    [attack |-> 0, decay |-> 0, sustain |-> 0, release |-> 0, state |-> "Init", t |-> 0]

start_attack(env) == [env EXCEPT !.state = "Attack", !.t = 0]

start_release(env) == [env EXCEPT !.state = "Release", !.t = 0]

\* the stage after `stage` has run its duration
NextStage(stage) ==
    CASE stage = "Attack" -> "Decay"
      [] stage = "Decay" -> "Sustain"
      [] stage = "Release" -> "Init"
      [] OTHER -> stage

StageDuration(env) ==
    CASE env.state = "Attack" -> env.attack
      [] env.state = "Decay" -> env.decay
      [] env.state = "Release" -> env.release
      [] OTHER -> 0

\* value(): one sample of envelope time passes
EnvAdvance(env) ==
    IF env.state \in {"Init", "Sustain"}
    THEN env
    ELSE IF (env.t + 1) * SampleMs >= StageDuration(env)
         THEN [env EXCEPT !.state = NextStage(env.state), !.t = 0]
         ELSE [env EXCEPT !.t = env.t + 1]

(***************************************************************************)
(* Voice::new and Sampler::with_sample / load_sound                        *)
(***************************************************************************)
VoiceNew ==
    [position |-> 0, column |-> 0, pitch |-> 0, pitch_ratio |-> 0,
     state |-> Free, env |-> EnvelopeNew]

\* amplitudes of the samples of a wav file after the division by
\* 2^(bit_depth - 1), in hundredths
Amps == {0 - 50, 0, 50}
\* wav_spec.channels
Channels == {1, 2}
\* the normalised samples of a wav file, interleaved
Waves == UNION {[1..n -> Amps] : n \in 0..MaxWave}

RECURSIVE Chunks(_, _)
\* chunks(channels) and the map to Frame: left is the first sample of a chunk,
\* right the second or, when the chunk has none, left again
Chunks(pcm, channels) ==
    IF Len(pcm) = 0
    THEN << >>
    ELSE LET k == IF Len(pcm) < channels THEN Len(pcm) ELSE channels
             left == pcm[1]
             right == IF k >= 2 THEN pcm[2] ELSE left
         IN << Frame(left, right) >> \o Chunks(SubSeq(pcm, k + 1, Len(pcm)), channels)

RECURSIVE FirstLoud(_, _)
\* the scan of load_sound: index (0-based) of the first frame that is not
\* below SILENCE on both channels, 0 when there is none
FirstLoud(s, i) ==
    IF i > Len(s) THEN 0
    ELSE IF s[i].left < SILENCE /\ s[i].right < SILENCE
         THEN FirstLoud(s, i + 1)
         ELSE i - 1

load_sound(s) == FirstLoud(s, 1)

\* Param::new(min, default, max, step): val starts at the default
ParamsNew(offset) ==
    [k \in SamplerParam |->
        CASE k = "Amp" -> AmpDefault
          [] k = "Offset" -> offset
          [] k = "Attack" -> AttackDefault
          [] k = "Decay" -> DecayDefault
          [] k = "Sustain" -> SustainDefault
          [] k = "Release" -> ReleaseDefault]

get_param(k) == params[k]

\* lastOp: kind of the call; for an event its column and pitch; slot: the voice
\* a NoteOn allocated or a NoteOff matched (0: none); stolen: the voice stop_note
\* matched; onSlot: for a NoteOff that directly follows the NoteOn of the same
\* column and pitch, the voice that NoteOn allocated; again: a NoteOff repeating
\* the call before it; key: the key of a set_param; fill: what the slots of the
\* buffer of a watched render held on entry
NoOp == [kind |-> "Init", column |-> 0, pitch |-> 0, slot |-> 0, stolen |-> 0,
         onSlot |-> 0, again |-> FALSE, key |-> "none", fill |-> 0]

\* the state with_sample returns
Constructed ==
    /\ samples \in SampleFiles
    /\ loadOffset = load_sound(samples)
    /\ voices = [i \in 1..NumVoices |-> VoiceNew]
    /\ params = ParamsNew(loadOffset)
    /\ panicked = FALSE
    /\ buffer = << >>
    /\ lastOp = NoOp
    /\ steal = << 0, 0 >>

Init == Constructed /\ callsLeft = MaxCalls

(***************************************************************************)
(* The allocator                                                           *)
(***************************************************************************)
\* iter().find(pred): the lowest of the indices that satisfy the predicate
\* (hits), 0 when there is none
FindFirst(hits) ==
    IF hits = {} THEN 0 ELSE CHOOSE i \in hits : \A j \in hits : i <= j

\* 2^((pitch - ROOT_PITCH) / 12) * (sample_rate / SAMPLE_RATE), in 1/PosUnit
PitchRatio(pitch) ==
    LET oct == (pitch - ROOT_PITCH) \div 12
    IN IF oct >= 0 THEN PosUnit * (2 ^ oct) ELSE PosUnit \div (2 ^ (0 - oct))

FreeSlot(vs) == FindFirst({i \in 1..Len(vs) : vs[i].state = Free})

\* note_on with the envelope configured (shared by the variants below)
Allocate(v, column, pitch) ==
    [v EXCEPT !.env = start_attack([@ EXCEPT !.attack = get_param("Attack"),
                                              !.decay = get_param("Decay"),
                                              !.sustain = get_param("Sustain"),
                                              !.release = get_param("Release")]),
              !.state = Busy,
              !.pitch = pitch,
              !.column = column,
              !.pitch_ratio = PitchRatio(pitch)]

\* variant: a note that finds no Free voice gets a new voice pushed to the pool
note_on_grow(vs, column, pitch) ==
    LET i == FreeSlot(vs)
    IN IF i = 0
       THEN Append(vs, Allocate(VoiceNew, column, pitch))
       ELSE [vs EXCEPT ![i] = Allocate(@, column, pitch)]

\* variant: a note that finds no Free voice takes over the first voice
note_on_take_first(vs, column, pitch) ==
    LET i == FreeSlot(vs)
    IN [vs EXCEPT ![IF i = 0 THEN 1 ELSE i] = Allocate(@, column, pitch)]

\* variant: the envelope's attack is not started
note_on_no_attack(vs, column, pitch) ==
    LET i == FreeSlot(vs)
    IN IF i = 0
       THEN vs
       ELSE [vs EXCEPT ![i] = [Allocate(@, column, pitch) EXCEPT !.env.state = vs[i].env.state]]

note_on(vs, column, pitch) ==
    LET i == FreeSlot(vs)
    IN IF i = 0
       THEN vs
       ELSE [vs EXCEPT ![i] = Allocate(@, column, pitch)]

NoteOffSlot(vs, column, pitch) ==
    FindFirst({i \in 1..Len(vs) : /\ vs[i].state = Busy
                                  /\ vs[i].column = column
                                  /\ vs[i].pitch = pitch})

\* variant: the NoteOff path runs the allocation of the NoteOn path
note_off_allocates(vs, column, pitch) == note_on(vs, column, pitch)

\* variant: the match does not look at the voice's state
note_off_any_state(vs, column, pitch) ==
    LET i == FindFirst({j \in 1..Len(vs) : vs[j].column = column /\ vs[j].pitch = pitch})
    IN IF i = 0 THEN vs
       ELSE [vs EXCEPT ![i].env = start_release(@)]

\* variant: every matching voice is released
note_off_all(vs, column, pitch) ==
    [i \in 1..Len(vs) |->
        IF vs[i].state = Busy /\ vs[i].column = column /\ vs[i].pitch = pitch
        THEN [vs[i] EXCEPT !.env = start_release(@)]
        ELSE vs[i]]

\* variant: the last matching voice of the pool is released
note_off_last(vs, column, pitch) ==
    LET hits == {j \in 1..Len(vs) : /\ vs[j].state = Busy
                                     /\ vs[j].column = column
                                     /\ vs[j].pitch = pitch}
    IN IF hits = {} THEN vs
       ELSE [vs EXCEPT ![CHOOSE i \in hits : \A j \in hits : j <= i].env =
                            start_release(@)]

note_off(vs, column, pitch) ==
    LET i == NoteOffSlot(vs, column, pitch)
    IN IF i = 0 THEN vs
       ELSE [vs EXCEPT ![i].env = start_release(@)]

StopSlot(vs, column) ==
    FindFirst({i \in 1..Len(vs) : vs[i].state = Busy /\ vs[i].column = column})

stop_note(vs, column) ==
    LET i == StopSlot(vs, column)
    IN IF i = 0 THEN vs
       ELSE [vs EXCEPT ![i].env = start_release([@ EXCEPT !.release = ShortRelease])]

(***************************************************************************)
(* render                                                                  *)
(***************************************************************************)
NumFrames == Len(samples)

\* a buffer slot holds the value the host passed in it (base) plus the terms the
\* call has added to it, in the order of the additions; a term is
\* amp * env * new_frame with its three factors kept apart: the Amp parameter
\* in dB, the envelope whose value() is taken, and the interpolated frame.
HostBuffer(n, fill) == [i \in 1..n |-> [base |-> fill, added |-> << >>]]

\* variant: the frame at the integer position, without interpolation
Interpolate_nearest(position) ==
    LET frame == samples[(position \div PosUnit) + 1]
    IN Frame(frame.left * PosUnit, frame.right * PosUnit)

\* new_frame = frame * inverse_weight + next_frame * weight, in 1/PosUnit of
\* the amplitude unit (weight and inverse_weight are counted in 1/PosUnit)
Interpolate(position) ==
    LET pos == position \div PosUnit
        weight == position - pos * PosUnit
        inverse_weight == PosUnit - weight
        frame == samples[pos + 1]
        next_frame == samples[pos + 2]
    IN Frame(frame.left * inverse_weight + next_frame.left * weight,
             frame.right * inverse_weight + next_frame.right * weight)

\* variant: the slot is assigned, not added to
Mix_overwrite(slot, term) == [base |-> 0, added |-> << term >>]

\* buffer[i] += amp * env * new_frame (both channels)
Mix(slot, term) == [slot EXCEPT !.added = Append(@, term)]

\* variant: the retired voice keeps the position it reached
Retire_keep_position(v, offset) == [v EXCEPT !.state = Free]

\* the voice has run off the end of the sample
Retire(v, offset) == [v EXCEPT !.state = Free, !.position = offset * PosUnit]

RECURSIVE RenderSlots(_, _, _, _, _, _)
\* the loop `for i in 0..buffer.len()` of one Busy voice (the id-th of the
\* pool), from slot i (0-based) on.
\* Result: the voice, the buffer, and whether an index was out of bounds.
RenderSlots(v, id, offset, amp, buf, i) ==
    IF i >= Len(buf)
    THEN [voice |-> v, buffer |-> buf, panic |-> FALSE]
    ELSE LET pos == v.position \div PosUnit
         IN IF pos + 1 >= NumFrames
            THEN [voice |-> v, buffer |-> buf, panic |-> TRUE]
            ELSE LET term == [voice |-> id, frame |-> Interpolate(v.position),
                              env |-> v.env, amp |-> amp]
                     out == [buf EXCEPT ![i + 1] = Mix(@, term)]
                     w == [v EXCEPT !.env = EnvAdvance(v.env),
                                    !.position = v.position + v.pitch_ratio]
                 IN IF w.position >= (NumFrames - 1) * PosUnit
                    THEN [voice |-> Retire(w, offset), buffer |-> out, panic |-> FALSE]
                    ELSE RenderSlots(w, id, offset, amp, out, i + 1)

\* the body of `for voice in &mut self.voices`
RenderVoice(v, id, offset, amp, buf) ==
    LET r == IF v.env.state = "Init"
             THEN [v EXCEPT !.state = Free, !.position = offset * PosUnit]
             ELSE v
    IN IF r.state # Busy
       THEN [voice |-> r, buffer |-> buf, panic |-> FALSE]
       ELSE RenderSlots(r, id, offset, amp, buf, 0)

RECURSIVE RenderFrom(_, _, _, _, _)
\* voices i.. of the pool in order; a panic leaves the later voices as they were
RenderFrom(vs, i, offset, amp, buf) ==
    IF i > Len(vs)
    THEN [voices |-> vs, buffer |-> buf, panic |-> FALSE]
    ELSE LET r == RenderVoice(vs[i], i, offset, amp, buf)
         IN IF r.panic
            THEN [voices |-> [vs EXCEPT ![i] = r.voice], buffer |-> r.buffer,
                  panic |-> TRUE]
            ELSE RenderFrom([vs EXCEPT ![i] = r.voice], i + 1, offset, amp, r.buffer)

render(vs, buf) == RenderFrom(vs, 1, get_param("Offset"), get_param("Amp"), buf)

(***************************************************************************)
(* The calls of the Instrument trait                                       *)
(***************************************************************************)
NoSteal == << 0, 0 >>

NoteOn(column, pitch) ==
    /\ ~panicked
    /\ callsLeft > 0
    /\ LET stopped == StopSlot(voices, column)
           vs == stop_note(voices, column)
           slot == FreeSlot(vs)
       IN /\ voices' = note_on(vs, column, pitch)
          /\ lastOp' = [NoOp EXCEPT !.kind = "NoteOn", !.column = column,
                                    !.pitch = pitch, !.slot = slot, !.stolen = stopped]
          /\ steal' = IF stopped # 0 /\ slot # 0 THEN << stopped, slot >> ELSE NoSteal
    /\ buffer' = << >>
    /\ callsLeft' = callsLeft - 1
    /\ UNCHANGED << samples, params, loadOffset, panicked >>

NoteOff(column, pitch) ==
    /\ ~panicked
    /\ callsLeft > 0
    /\ voices' = note_off(voices, column, pitch)
    /\ LET same(kind) == /\ lastOp.kind = kind
                          /\ lastOp.column = column
                          /\ lastOp.pitch = pitch
       IN lastOp' = [NoOp EXCEPT !.kind = "NoteOff", !.column = column, !.pitch = pitch,
                                 !.slot = NoteOffSlot(voices, column, pitch),
                                 !.onSlot = IF same("NoteOn") THEN lastOp.slot ELSE 0,
                                 !.again = same("NoteOff")]
    /\ steal' = NoSteal
    /\ buffer' = << >>
    /\ callsLeft' = callsLeft - 1
    /\ UNCHANGED << samples, params, loadOffset, panicked >>

EmptyEvent(column) ==
    /\ ~panicked
    /\ callsLeft > 0
    /\ lastOp' = [NoOp EXCEPT !.kind = "Empty"]
    /\ steal' = NoSteal
    /\ buffer' = << >>
    /\ callsLeft' = callsLeft - 1
    /\ UNCHANGED << voices, samples, params, loadOffset, panicked >>

\* variant: a key the map does not hold is inserted
set_param_insert(ps, key, value) ==
    [k \in DOMAIN ps \cup {key} |-> IF k = key THEN value ELSE ps[k]]

\* variant: the value is stored under every key
set_param_all(ps, key, value) ==
    IF key \in DOMAIN ps THEN [k \in DOMAIN ps |-> value] ELSE ps

set_param(ps, key, value) ==
    IF key \in DOMAIN ps THEN [ps EXCEPT ![key] = value] ELSE ps

SetParam(key, value) ==
    /\ ~panicked
    /\ callsLeft > 0
    /\ params' = set_param(params, key, value)
    /\ lastOp' = [NoOp EXCEPT !.kind = "SetParam", !.key = key]
    /\ steal' = NoSteal
    /\ buffer' = << >>
    /\ callsLeft' = callsLeft - 1
    /\ UNCHANGED << voices, samples, loadOffset, panicked >>

\* render on a buffer of n slots that hold `fill` (r: what the call leaves);
\* `watch`: the model keeps the buffer as the call left it (it is the host's
\* memory, not the sampler's)
RenderCall(n, fill, watch) ==
    /\ ~panicked
    /\ \E r \in {render(voices, HostBuffer(n, fill))} :
          /\ voices' = r.voices
          /\ buffer' = IF watch THEN r.buffer ELSE << >>
          /\ panicked' = r.panic
          /\ steal' = steal
    /\ lastOp' = [NoOp EXCEPT !.kind = "Render",
                              !.fill = IF watch /\ n > 0 THEN fill ELSE 0]
    /\ UNCHANGED << samples, params, loadOffset, callsLeft >>

Render(n) == RenderCall(n, 0, FALSE)

SendNoteOn == \E c \in Columns, p \in Pitches : NoteOn(c, p)
SendNoteOff == \E c \in Columns, p \in Pitches : NoteOff(c, p)
SendEmpty == \E c \in Columns : EmptyEvent(c)
CallSetParam == \E k \in ParamKeys, x \in ParamValues : SetParam(k, x)
CallRender == \E n \in BufLens : Render(n)

Next == SendNoteOn \/ SendNoteOff \/ SendEmpty \/ CallSetParam \/ CallRender

Spec == Init /\ [][Next]_vars

(***************************************************************************)
(* The sampler on a two-frame and a four-frame sample, with notes an octave *)
(* below ROOT_PITCH (pitch ratio 1/2) and the render buffer observed.      *)
(***************************************************************************)
MixFiles ==
    { << Frame(50, 30), Frame(10, 70) >>,
      << Frame(0, 0), Frame(40, 20), Frame(20, 60), Frame(60, 40) >> }

MixPitches == {ROOT_PITCH - 12, ROOT_PITCH}

MixInit ==
    /\ samples \in MixFiles
    /\ loadOffset = load_sound(samples)
    /\ voices = [i \in 1..NumVoices |-> VoiceNew]
    /\ params = ParamsNew(loadOffset)
    /\ panicked = FALSE
    /\ buffer = << >>
    /\ lastOp = NoOp
    /\ steal = NoSteal
    /\ callsLeft = MixCalls

MixNoteOn == \E c \in Columns, p \in MixPitches : NoteOn(c, p)
MixNoteOff == \E c \in Columns, p \in MixPitches : NoteOff(c, p)
MixRender == \E n \in 0..MixBuf, fill \in BufFills : RenderCall(n, fill, TRUE)

MixNext == MixNoteOn \/ MixNoteOff \/ SendEmpty \/ CallSetParam \/ MixRender

MixSpec == MixInit /\ [][MixNext]_vars

(***************************************************************************)
(* The sampler with a pool one voice larger (a column can then own a       *)
(* stolen voice, a sounding voice and find a Free one).                    *)
(***************************************************************************)
WidePool == NumVoices + 1

WideInit ==
    /\ samples \in SampleFiles
    /\ loadOffset = load_sound(samples)
    /\ voices = [i \in 1..WidePool |-> VoiceNew]
    /\ params = ParamsNew(loadOffset)
    /\ panicked = FALSE
    /\ buffer = << >>
    /\ lastOp = NoOp
    /\ steal = NoSteal
    /\ callsLeft = MaxCalls

WideSpec == WideInit /\ [][Next]_vars

(***************************************************************************)
(* with_sample on its own: the state before a sampler is built, and the    *)
(* construction from a wav file.                                           *)
(***************************************************************************)
NoSampler ==
    /\ samples = << >>
    /\ loadOffset = 0
    /\ voices = << >>
    /\ params = ParamsNew(0)
    /\ panicked = FALSE
    /\ buffer = << >>
    /\ lastOp = NoOp
    /\ steal = NoSteal
    /\ callsLeft = 0

WithSample(pcm, channels) ==
    /\ lastOp.kind = "Init"
    /\ \E s \in {Chunks(pcm, channels)} :
          /\ samples' = s
          /\ loadOffset' = load_sound(s)
          /\ params' = ParamsNew(load_sound(s))
    /\ voices' = [i \in 1..NumVoices |-> VoiceNew]
    /\ lastOp' = [NoOp EXCEPT !.kind = "Load"]
    /\ UNCHANGED << panicked, buffer, steal, callsLeft >>

LoadNext == \E pcm \in Waves, channels \in Channels : WithSample(pcm, channels)

LoadSpec == NoSampler /\ [][LoadNext]_vars

(***************************************************************************)
(* Properties                                                              *)
(***************************************************************************)
Slots == 1..Len(voices)
IsBusy(i) == voices[i].state = Busy
IsFree(i) == voices[i].state = Free
AllBusy == \A i \in Slots : IsBusy(i)
OffsetPos == params["Offset"] * PosUnit

\* C1: the pool keeps its size and never holds more Busy voices than that; a
\* voice goes from Free to Busy only in the step of a NoteOn, as the one voice
\* that NoteOn allocated and with its column and pitch (so a NoteOn that found
\* no Free voice makes no voice Busy, then or later).
C1_PoolBounded ==
    /\ [](/\ Len(voices) = NumVoices
          /\ Cardinality({i \in Slots : IsBusy(i)}) <= NumVoices)
    /\ [][\A i \in Slots :
            (voices[i].state = Free /\ voices'[i].state = Busy)
            => /\ lastOp'.kind = "NoteOn"
               /\ lastOp'.slot = i
               /\ voices'[i].column = lastOp'.column
               /\ voices'[i].pitch = lastOp'.pitch
               /\ \A j \in Slots \ {i} : voices'[j].state = voices[j].state]_vars

\* a NoteOn has just been dropped with the whole pool Busy
C1_Witness == AllBusy /\ lastOp.kind = "NoteOn" /\ lastOp.slot = 0

\* C2 (as claimed): a NoteOn on a column leaves every voice that was Busy on
\* that column in release with the 5 ms release, still Busy with its pitch
\* and position, and allocates another slot.
C2_Claim ==
    [][lastOp'.kind = "NoteOn"
       => \A i \in Slots :
            (IsBusy(i) /\ voices[i].column = lastOp'.column)
            => /\ voices'[i].env.state = "Release"
               /\ voices'[i].env.release = ShortRelease
               /\ voices'[i].state = Busy
               /\ voices'[i].pitch = voices[i].pitch
               /\ voices'[i].position = voices[i].position
               /\ lastOp'.slot # i]_vars

StolenBusy == steal # NoSteal /\ IsBusy(steal[1])
NewFree == steal # NoSteal /\ IsFree(steal[2])

\* C3 (as claimed): after a steal followed by render passes only, the new
\* voice is never Free while the stolen voice is still Busy.
C3_Claim == ~(NewFree /\ StolenBusy)

\* C3 (amended): after a steal followed by render passes only, a new voice that
\* is Free while the stolen voice is still Busy was retired at the end of the
\* sample, not by its envelope coming to rest.
C3_StolenFirstUnlessSampleEnd ==
    (NewFree /\ StolenBusy) => voices[steal[2]].env.state # "Init"

\* render passes after a steal have retired the stolen voice and not the new one
C3_Witness ==
    /\ steal # NoSteal
    /\ lastOp.kind = "Render"
    /\ IsFree(steal[1])
    /\ IsBusy(steal[2])

\* C4: a NoteOn on a column that owns no Busy voice, arriving with every voice
\* Busy, changes no voice.
C4_DropKeepsPool ==
    [][(/\ lastOp'.kind = "NoteOn"
        /\ AllBusy
        /\ \A i \in Slots : voices[i].column # lastOp'.column)
       => voices' = voices]_vars

\* such a NoteOn has been handled
C4_Witness ==
    /\ AllBusy
    /\ lastOp.kind = "NoteOn"
    /\ lastOp.slot = 0
    /\ lastOp.stolen = 0

\* C5: a NoteOff that repeats the NoteOff just before it (same column and
\* pitch) changes neither the voices, envelopes included, nor the parameters,
\* and does not panic.
C5_NoteOffIdempotent ==
    [][(/\ lastOp.kind = "NoteOff"
        /\ lastOp'.kind = "NoteOff"
        /\ lastOp'.column = lastOp.column
        /\ lastOp'.pitch = lastOp.pitch)
       => /\ voices' = voices
          /\ params' = params
          /\ ~panicked']_vars

\* a NoteOff has been repeated on a voice it matches
C5_Witness ==
    /\ lastOp.kind = "NoteOff"
    /\ lastOp.again
    /\ lastOp.slot # 0
    /\ voices[lastOp.slot].env.state = "Release"

\* C6: a NoteOff for which no Busy voice has its column and pitch changes no
\* voice and no parameter, and does not panic.
C6_UnmatchedNoteOffIgnored ==
    [][(/\ lastOp'.kind = "NoteOff"
        /\ ~ \E i \in Slots : /\ IsBusy(i)
                              /\ voices[i].column = lastOp'.column
                              /\ voices[i].pitch = lastOp'.pitch)
       => /\ voices' = voices
          /\ params' = params
          /\ ~panicked']_vars

\* an unmatched NoteOff has been handled while a Free voice still carries its
\* column and pitch from an earlier note
C6_Witness ==
    /\ lastOp.kind = "NoteOff"
    /\ lastOp.slot = 0
    /\ \E i \in Slots : /\ IsFree(i)
                        /\ voices[i].column = lastOp.column
                        /\ voices[i].pitch = lastOp.pitch

\* render passes of non-zero length
RenderSome == \E n \in BufLens \ {0} : Render(n)

\* the host keeps calling render; the run makes up to LiveCalls other calls
LiveInit == Constructed /\ callsLeft = LiveCalls

FairSpec == LiveInit /\ [][Next]_vars /\ WF_vars(RenderSome)

\* C7 (as claimed): the voice a NoteOn allocated, after the NoteOff of the same
\* column and pitch, is eventually Free with its position at the Offset value.
C7_Claim ==
    \A i \in 1..NumVoices :
        (lastOp.kind = "NoteOff" /\ lastOp.onSlot = i)
        ~> (voices[i].state = Free /\ voices[i].position = OffsetPos)

\* C8 (as claimed): no call panics and every Busy voice's position is in
\* [0, N-1).
C8_Claim ==
    /\ ~panicked
    /\ \A i \in Slots :
        IsBusy(i) => /\ 0 <= voices[i].position
                     /\ voices[i].position < (NumFrames - 1) * PosUnit

\* C9 (as claimed): a voice starts at or after the offset found at load time,
\* and the Offset parameter is never below it.
C9_Claim ==
    /\ params["Offset"] >= loadOffset
    /\ (lastOp.kind = "NoteOn" /\ lastOp.slot # 0)
       => voices[lastOp.slot].position >= loadOffset * PosUnit

\* C10 (as claimed): after a render pass every Free voice's position is the
\* Offset parameter's value.
C10_Claim ==
    (lastOp.kind = "Render" /\ ~panicked)
    => \A i \in Slots : IsFree(i) => voices[i].position = OffsetPos

\* C11 (as claimed): the offset computed at load is the number of frames for a
\* wave whose samples are all zero, and k for a wave whose only sample above
\* the threshold is in frame k (0-based), all other samples being zero.
C11_Claim ==
    lastOp.kind = "Load"
    => /\ (\A i \in 1..Len(samples) : samples[i] = Frame(0, 0))
          => loadOffset = Len(samples)
       /\ \A k \in 1..Len(samples) :
            (/\ samples[k].left > SILENCE \/ samples[k].right > SILENCE
             /\ samples[k].left >= 0 /\ samples[k].right >= 0
             /\ \A j \in 1..Len(samples) \ {k} : samples[j] = Frame(0, 0))
            => loadOffset = k - 1

\* the voice is Busy when a render pass starts and is not freed at its start
BusyAtStart(i) == voices[i].state = Busy /\ voices[i].env.state # "Init"

\* a pass over n slots reads past the end of the sample for voice i
PanicsIn(i, n) ==
    /\ n >= 1
    /\ BusyAtStart(i)
    /\ (voices[i].position \div PosUnit) + 1 >= NumFrames

\* a pass over n slots gets to voice i
Reached(i, n) == \A j \in 1..(i - 1) : ~PanicsIn(j, n)

\* the terms voice i has added to slot k of the buffer
TermsOf(buf, k, i) ==
    {j \in 1..Len(buf[k].added) : buf[k].added[j].voice = i}

\* C12: every frame a render pass adds for a voice is the interpolation
\* frame[i]*(1-w) + frame[i+1]*w at the position p the voice has at that slot
\* (its position at the start of the pass plus its pitch ratio per earlier
\* slot), i = floor(p), w = p - i.  On a two-frame sample [A, B] a voice at
\* position 0 with pitch ratio 1/2 adds A to the first slot and the midpoint
\* of A and B to the second, is then Free and adds nothing to later slots.
C12_Interpolation ==
    [][lastOp'.kind = "Render"
       => /\ \A k \in 1..Len(buffer') : \A j \in 1..Len(buffer'[k].added) :
                LET term == buffer'[k].added[j]
                    p == voices[term.voice].position
                         + (k - 1) * voices[term.voice].pitch_ratio
                    i == p \div PosUnit
                    w == p - i * PosUnit
                    a == samples[i + 1]
                    b == samples[i + 2]
                IN /\ term.frame.left = a.left * (PosUnit - w) + b.left * w
                   /\ term.frame.right = a.right * (PosUnit - w) + b.right * w
          /\ \A i \in Slots :
                (/\ NumFrames = 2
                 /\ Len(buffer') >= 2
                 /\ BusyAtStart(i)
                 /\ Reached(i, Len(buffer'))
                 /\ voices[i].position = 0
                 /\ 2 * voices[i].pitch_ratio = PosUnit)
                => /\ \E j \in TermsOf(buffer', 1, i) :
                        /\ buffer'[1].added[j].frame.left = PosUnit * samples[1].left
                        /\ buffer'[1].added[j].frame.right = PosUnit * samples[1].right
                   /\ \E j \in TermsOf(buffer', 2, i) :
                        /\ 2 * buffer'[2].added[j].frame.left
                           = PosUnit * (samples[1].left + samples[2].left)
                        /\ 2 * buffer'[2].added[j].frame.right
                           = PosUnit * (samples[1].right + samples[2].right)
                   /\ voices'[i].state = Free
                   /\ \A k \in 3..Len(buffer') : TermsOf(buffer', k, i) = {}]_vars

\* a pass has rendered A and then the midpoint of a two-frame sample [A, B],
\* A # B, for a voice that is now Free
C12_Witness ==
    /\ lastOp.kind = "Render"
    /\ NumFrames = 2
    /\ samples[1] # samples[2]
    /\ Len(buffer) >= 2
    /\ \E i \in Slots :
        /\ IsFree(i)
        /\ 2 * voices[i].pitch_ratio = PosUnit
        /\ \E j \in TermsOf(buffer, 1, i) :
              buffer[1].added[j].frame = Frame(PosUnit * samples[1].left,
                                               PosUnit * samples[1].right)
        /\ \E j \in TermsOf(buffer, 2, i) :
              /\ 2 * buffer[2].added[j].frame.left
                 = PosUnit * (samples[1].left + samples[2].left)
              /\ 2 * buffer[2].added[j].frame.right
                 = PosUnit * (samples[1].right + samples[2].right)

RECURSIVE EnvAfter(_, _)
\* the envelope after m samples
EnvAfter(env, m) == IF m = 0 THEN env ELSE EnvAfter(EnvAdvance(env), m - 1)

\* voice i is Busy for slot k (1-based) of a pass over n slots: the pass gets
\* to it, it is Busy when the pass starts, and it has not reached the end of
\* the sample in the slots before k
BusyFor(i, k, n) ==
    /\ Reached(i, n)
    /\ BusyAtStart(i)
    /\ voices[i].position + (k - 1) * voices[i].pitch_ratio < (NumFrames - 1) * PosUnit

\* C13: a render pass keeps in every slot the value the host passed and adds
\* to it one term for each voice that is Busy for that slot, in pool order,
\* scaled by the current Amp and by the voice's envelope at that slot, and
\* nothing else: with no such voice the slot is as the host passed it.
C13_Accumulates ==
    [][lastOp'.kind = "Render"
       => \A k \in 1..Len(buffer') :
            LET added == buffer'[k].added
                busy == {i \in Slots : BusyFor(i, k, Len(buffer'))}
            IN /\ buffer'[k].base = lastOp'.fill
               /\ Len(added) = Cardinality(busy)
               /\ {added[j].voice : j \in 1..Len(added)} = busy
               /\ \A j \in 1..Len(added) :
                    /\ j > 1 => added[j - 1].voice < added[j].voice
                    /\ added[j].amp = params["Amp"]
                    /\ added[j].env = EnvAfter(voices[added[j].voice].env, k - 1)]_vars

\* a pass has added the terms of two voices to a slot that held a value other
\* than 0, and nothing to a later slot, for which no voice was Busy any more
C13_Witness ==
    /\ lastOp.kind = "Render"
    /\ Len(buffer) >= 2
    /\ buffer[1].base # 0
    /\ Len(buffer[1].added) = 2
    /\ buffer[2] = [base |-> buffer[1].base, added |-> << >>]

\* C14: a set_param whose key is not one of the sampler's parameters changes
\* no parameter (the set of keys included) and no voice, and does not panic.
C14_ForeignKeyIgnored ==
    [][(lastOp'.kind = "SetParam" /\ lastOp'.key \notin SamplerParam)
       => /\ params' = params
          /\ DOMAIN params' = SamplerParam
          /\ voices' = voices
          /\ ~panicked']_vars

\* such a set_param has been handled while a voice is Busy
C14_Witness ==
    /\ lastOp.kind = "SetParam"
    /\ lastOp.key \notin SamplerParam
    /\ \E i \in Slots : IsBusy(i)

\* C15: when two or more Busy voices have the column and pitch of a NoteOff,
\* the NoteOff puts the lowest of them in release, changes nothing else of it
\* (state, column, pitch, position, stage durations), and changes no other
\* voice.
C15_FirstMatchReleased ==
    [][lastOp'.kind = "NoteOff"
       => LET hits == {i \in Slots : /\ IsBusy(i)
                                      /\ voices[i].column = lastOp'.column
                                      /\ voices[i].pitch = lastOp'.pitch}
          IN Cardinality(hits) >= 2
             => \E m \in hits :
                  /\ \A j \in hits : m <= j
                  /\ voices'[m].env.state = "Release"
                  /\ [voices'[m] EXCEPT !.env.state = voices[m].env.state,
                                        !.env.t = voices[m].env.t] = voices[m]
                  /\ \A j \in Slots \ {m} : voices'[j] = voices[j]]_vars

\* a NoteOff has released the first of two matching voices; the other one is
\* not in release
C15_Witness ==
    /\ lastOp.kind = "NoteOff"
    /\ lastOp.slot # 0
    /\ voices[lastOp.slot].env.state = "Release"
    /\ \E j \in Slots :
        /\ j > lastOp.slot
        /\ IsBusy(j)
        /\ voices[j].column = lastOp.column
        /\ voices[j].pitch = lastOp.pitch
        /\ voices[j].env.state # "Release"

\* the slots (1-based) of a pass over n slots after which voice i has advanced
\* to the end of the sample
EndSlots(i, n) ==
    {k \in 1..n : voices[i].position + k * voices[i].pitch_ratio
                   >= (NumFrames - 1) * PosUnit}

\* C16: when a voice that a render pass renders advances to position >= N-1
\* at some slot, then after the pass it is Free with its position at the
\* Offset parameter's value, the first such slot holds a term of the voice
\* and no later slot of the buffer does.
C16_RetiredAtEnd ==
    [][lastOp'.kind = "Render"
       => \A i \in Slots :
            LET n == Len(buffer')
            IN (/\ BusyFor(i, 1, n)
                /\ EndSlots(i, n) # {})
               => LET last == CHOOSE k \in EndSlots(i, n) :
                                \A m \in EndSlots(i, n) : k <= m
                  IN /\ voices'[i].state = Free
                     /\ voices'[i].position = params["Offset"] * PosUnit
                     /\ TermsOf(buffer', last, i) # {}
                     /\ \A k \in (last + 1)..n : TermsOf(buffer', k, i) = {}]_vars

\* a pass has retired a voice at the end of the sample (its envelope is not at
\* rest) after the first slot of a longer buffer
C16_Witness ==
    /\ lastOp.kind = "Render"
    /\ Len(buffer) >= 2
    /\ \E i \in Slots :
        /\ IsFree(i)
        /\ voices[i].env.state # "Init"
        /\ voices[i].position = OffsetPos
        /\ TermsOf(buffer, 1, i) # {}
        /\ TermsOf(buffer, 2, i) = {}

\* the attack, decay, sustain and release settings of an envelope
Adsr(env) == << env.attack, env.decay, env.sustain, env.release >>

\* C17: a set_param changes no voice and no parameter other than the one of
\* its key.  The settings of a voice's envelope change only in a NoteOn, for
\* the voice it allocates (which gets the current parameter values) or the
\* voice it stops (release only).  A render pass scales every term by the
\* current Amp and gives every voice it frees the current Offset.
C17_SetParamStoresOnly ==
    [][/\ lastOp'.kind = "SetParam"
          => /\ voices' = voices
             /\ DOMAIN params' = SamplerParam
             /\ \A k \in SamplerParam \ {lastOp'.key} : params'[k] = params[k]
       /\ \A i \in Slots :
            Adsr(voices'[i].env) # Adsr(voices[i].env)
            => /\ lastOp'.kind = "NoteOn"
               /\ \/ lastOp'.slot = i
                  \/ /\ lastOp'.stolen = i
                     /\ Adsr(voices'[i].env)
                        = Adsr([voices[i].env EXCEPT !.release = ShortRelease])
       /\ (lastOp'.kind = "NoteOn" /\ lastOp'.slot # 0)
          => Adsr(voices'[lastOp'.slot].env)
             = << params["Attack"], params["Decay"], params["Sustain"],
                  params["Release"] >>
       /\ lastOp'.kind = "Render"
          => /\ \A k \in 1..Len(buffer') : \A j \in 1..Len(buffer'[k].added) :
                  buffer'[k].added[j].amp = params["Amp"]
             /\ \A i \in Slots :
                  (IsBusy(i) /\ voices'[i].state = Free)
                  => voices'[i].position = params["Offset"] * PosUnit]_vars

\* a set_param has changed Attack or Release while a Busy voice has the value
\* it was started with
C17_Witness ==
    /\ lastOp.kind = "SetParam"
    /\ lastOp.key \in {"Attack", "Release"}
    /\ \E i \in Slots :
        /\ IsBusy(i)
        /\ voices[i].env.state = "Attack"
        /\ voices[i].env[IF lastOp.key = "Attack" THEN "attack" ELSE "release"]
           # params[lastOp.key]

\* the voice is Busy and its envelope is neither in release nor at rest
Sounding(i) == IsBusy(i) /\ voices[i].env.state \notin {"Release", "Init"}

\* C18 (as claimed): no column owns two Busy voices whose envelopes are not in
\* release.
C18_Claim ==
    \A c \in Columns :
        Cardinality({i \in Slots : Sounding(i) /\ voices[i].column = c}) <= 1

\* C19 (as claimed): after a NoteOff that directly follows the NoteOn of its
\* column and pitch, the voice that NoteOn allocated is in release.
C19_Claim ==
    (lastOp.kind = "NoteOff" /\ lastOp.onSlot # 0)
    => voices[lastOp.onSlot].env.state = "Release"

\* voice i is Busy with the column and pitch of the event being handled
Matches(i) ==
    /\ IsBusy(i)
    /\ voices[i].column = lastOp'.column
    /\ voices[i].pitch = lastOp'.pitch

\* C19 (amended): after a NoteOff, a Busy voice with its column and pitch (the
\* voice the NoteOn before it allocated is one) is in release exactly if it
\* was in release before or no voice below it in the pool is Busy with that
\* column and pitch.
C19_ReleasedUnlessLowerMatch ==
    [][lastOp'.kind = "NoteOff"
       => \A i \in Slots :
            Matches(i)
            => (voices'[i].env.state = "Release"
                <=> \/ voices[i].env.state = "Release"
                    \/ \A j \in 1..(i - 1) : ~Matches(j))]_vars

\* a NoteOff directly after the NoteOn of its column and pitch has released
\* the voice that NoteOn stole, and the voice that NoteOn allocated is still
\* in attack
C19_Witness ==
    /\ lastOp.kind = "NoteOff"
    /\ lastOp.onSlot # 0
    /\ lastOp.slot # 0
    /\ lastOp.slot < lastOp.onSlot
    /\ voices[lastOp.slot].env.state = "Release"
    /\ voices[lastOp.onSlot].env.state = "Attack"

\* C20 (as claimed): a NoteOn that finds no Free voice changes no voice.
C20_Claim ==
    [][(lastOp'.kind = "NoteOn" /\ lastOp'.slot = 0) => voices' = voices]_vars

====
